---- MODULE Spec2Model ----
(***************************************************************************)
(* Model of the Rick and Morty aggregation service (src/index.ts).         *)
(*                                                                         *)
(* One inbound request is followed from its arrival to its response.  The  *)
(* handlers share no mutable state (every variable below is a local of one *)
(* handler invocation or the upstream's answer to it), so concurrent       *)
(* requests are independent copies of this machine.                        *)
(*                                                                         *)
(* A handler is split where the code awaits: the synchronous prefix up to  *)
(* the first await is one action, every settling upstream call is one      *)
(* action, and the continuation after the await is one action.             *)
(***************************************************************************)
EXTENDS Integers, Sequences, FiniteSets, TLC

(* ------------------------------ bounds --------------------------------- *)

MaxChars == 3          \* characters on the first page of the collection
NumEpisodes == 2       \* distinct episode references
MaxEpLen == 2          \* length of one character's episode list
MaxExtraPages == 1     \* pages of the collection after the first
MaxRawLen == 2         \* length of a raw query-string value
NumItems == 2          \* distinct items one name search can return
CrowdSize == 7         \* characters of the snapshot with more pairs than the default limit

(* ------------------------- program constants --------------------------- *)

DefaultLimit == 20

MissingTermMessage == "Missing 'term' query parameter"
LimitMessage == "Query parameter 'limit' must be a positive integer"
MinMessage == "Query parameter 'min' must be a non-negative integer"
MaxMessage == "Query parameter 'max' must be a non-negative integer"
InternalErrorMessage == "Internal server error"

ResourceTypes == <<"character", "location", "episode">>

(* --------------------------- JavaScript values ------------------------- *)

\* A number as the handlers hold it: an integer, NaN, Infinity, or null
\* (the initial value of /search's limit).
Num(n) == [kind |-> "int", val |-> n]
NaN == [kind |-> "NaN", val |-> 0]
Infinity == [kind |-> "Infinity", val |-> 0]
Null == [kind |-> "null", val |-> 0]

\* req.query.<name>: undefined when the parameter is not supplied, else its text
\* (a sequence of one-character strings).
Absent == [present |-> FALSE, text |-> <<>>]
Str(s) == [present |-> TRUE, text |-> s]

\* What an awaited helper hands back: an array, or a truthy value that is not
\* an array (data.results of a wrongly shaped body).
Array(items) == [array |-> TRUE, items |-> items]
NotAnArray == [array |-> FALSE, items |-> <<>>]

Range(s) == {s[i] : i \in 1..Len(s)}

Min2(a, b) == IF a <= b THEN a ELSE b

(* ------------------------------ parseInt ------------------------------- *)

Whitespace == {" "}
Digits == {"0", "1", "2", "3", "4", "5", "6", "7", "8", "9"}

DigitVal(c) ==
  CASE c = "0" -> 0 [] c = "1" -> 1 [] c = "2" -> 2 [] c = "3" -> 3
    [] c = "4" -> 4 [] c = "5" -> 5 [] c = "6" -> 6 [] c = "7" -> 7
    [] c = "8" -> 8 [] c = "9" -> 9

RECURSIVE SkipSpace(_)
SkipSpace(s) ==
  IF s # <<>> /\ Head(s) \in Whitespace THEN SkipSpace(Tail(s)) ELSE s

\* the longest prefix of s made of decimal digits
RECURSIVE DigitPrefix(_)
DigitPrefix(s) ==
  IF s # <<>> /\ Head(s) \in Digits
  THEN <<Head(s)>> \o DigitPrefix(Tail(s))
  ELSE <<>>

RECURSIVE DecimalValue(_, _)
DecimalValue(ds, acc) ==
  IF ds = <<>> THEN acc
  ELSE DecimalValue(Tail(ds), acc * 10 + DigitVal(Head(ds)))

\* Number.parseInt(text, 10): leading white space is skipped, one sign is
\* read, then as many digits as follow; whatever comes after them is
\* ignored, and NaN results only when there is no digit at all.
ParseInt(s) ==
  LET t == SkipSpace(s)
      signed == t # <<>> /\ Head(t) \in {"-", "+"}
      negative == t # <<>> /\ Head(t) = "-"
      ds == DigitPrefix(IF signed THEN Tail(t) ELSE t)
  IN IF ds = <<>> THEN NaN
     ELSE Num(IF negative THEN 0 - DecimalValue(ds, 0) ELSE DecimalValue(ds, 0))

IsFinite(x) == x.kind = "int"

\* x < n and x <= n for a JavaScript number x and an integer n
\* (every comparison with NaN is false; Infinity is above every integer)
LessThan(x, n) == x.kind = "int" /\ x.val < n
AtMost(x, n) == x.kind = "int" /\ x.val <= n

\* n >= x and n <= x for an integer n and a JavaScript number x
IntAtLeast(n, x) == x.kind = "int" /\ n >= x.val
IntAtMost(n, x) == x.kind = "Infinity" \/ (x.kind = "int" /\ n <= x.val)

(* ------------------------------ upstream ------------------------------- *)

\* How one upstream call can end:
\*   ok         status 200 and a body {info, results: [...]}
\*   notfound   status 404
\*   badstatus  another non-2xx status
\*   transport  fetch rejects (network failure)
\*   badjson    response.json() rejects (the body is not JSON)
\*   noresults  status 200 and a JSON body whose results is missing or falsy
\*   badshape   status 200 and a JSON body whose results is truthy but no array
Outcomes ==
  {"ok", "notfound", "badstatus", "transport", "badjson", "noresults", "badshape"}

NameOf(i) == IF i % 2 = 1 THEN "Rick" ELSE "Morty"
UrlOf(kind, i) == <<kind, i>>

Character(i, eps) ==
  [id |-> i, name |-> NameOf(i), url |-> UrlOf("character", i), episode |-> eps]

\* the page envelope the upstream sends for page i of a collection
PageEnvelope(pages, i) ==
  [info |-> [pages |-> Len(pages),
             next |-> IF i < Len(pages) THEN i + 1 ELSE 0],
   results |-> pages[i]]

RECURSIVE Flatten(_)
Flatten(pages) ==
  IF pages = <<>> THEN <<>> ELSE Head(pages) \o Flatten(Tail(pages))

(* ------------------------------ the state ------------------------------ *)

VARIABLES
  pc,               \* where the handler of the request stands
  query,            \* req.query of the request (and the endpoint it went to)
  minEpisodes,      \* /top-pairs: local minEpisodes
  maxEpisodes,      \* /top-pairs: local maxEpisodes
  limit,            \* local limit of either handler
  calls,            \* /search: the three searchResource promises
  settleOrder,      \* /search: the resource types in the order their calls settled
  upstream,         \* /top-pairs: what the upstream held and how the call ended
  allCharacters,    \* /top-pairs: what getAllCharacters returned
  charactersPairs,  \* /top-pairs: the pair list as generated (line 238)
  fetches,          \* upstream fetches issued for this request
  response          \* the response sent, status 0 while none is

vars == <<pc, query, minEpisodes, maxEpisodes, limit, calls, settleOrder,
          upstream, allCharacters, charactersPairs, fetches, response>>

NoQuery ==
  [endpoint |-> "none", term |-> Absent, min |-> Absent, max |-> Absent,
   limit |-> Absent]

NoResponse == [status |-> 0, error |-> "", body |-> <<>>]
Json(body) == [status |-> 200, error |-> "", body |-> body]
ErrorResponse(status, message) == [status |-> status, error |-> message, body |-> <<>>]

Pending == [state |-> "pending", outcome |-> "none", hits |-> <<>>, value |-> Array(<<>>)]
NoCalls == [r \in Range(ResourceTypes) |-> Pending]
NoUpstream == [outcome |-> "none", pages |-> <<>>]

Init ==
  /\ pc = "idle"
  /\ query = NoQuery
  /\ minEpisodes = Num(0)
  /\ maxEpisodes = Infinity
  /\ limit = Null
  /\ calls = NoCalls
  /\ settleOrder = <<>>
  /\ upstream = NoUpstream
  /\ allCharacters = Array(<<>>)
  /\ charactersPairs = <<>>
  /\ fetches = 0
  /\ response = NoResponse

(* --------------------------- getAllCharacters -------------------------- *)

\* What getAllCharacters returns when its one fetch ends with outcome o against
\* a collection held upstream as the given pages.
getAllCharacters(o, pages) ==
  IF o = "transport" THEN Array(<<>>)            \* fetch rejects: caught, []
  ELSE IF o = "notfound" THEN Array(<<>>)        \* status === 404
  ELSE IF o = "badstatus" THEN Array(<<>>)       \* !response.ok: thrown, caught, []
  ELSE IF o = "badjson" THEN Array(<<>>)         \* json() rejects: caught, []
  ELSE IF o = "noresults" THEN Array(<<>>)       \* data.results || []
  ELSE IF o = "badshape" THEN NotAnArray         \* data.results as it is
  ELSE Array(PageEnvelope(pages, 1).results)     \* data.results of the first page

(* ------------------------------ pair engine ---------------------------- *)

\* character1.episodes.filter(ep => characterBEpisodeSet.has(ep))
CommonEpisodes(character1, character2) ==
  SelectSeq(character1.episodes, LAMBDA ep : ep \in Range(character2.episodes))

CharacterPair(character1, character2, n) ==
  [character1 |-> [name |-> character1.name, url |-> character1.url],
   character2 |-> [name |-> character2.name, url |-> character2.url],
   episodes |-> n]

\* the guard written as character1.id !== character2.id
IdBeforeAnyOrder(character1, character2) == character1.id # character2.id

\* the guard of the inner loop body
IdBefore(character1, character2) == character1.id < character2.id

RECURSIVE InnerLoop(_, _, _)
InnerLoop(character1, cs, j) ==
  IF j > Len(cs) THEN <<>>
  ELSE LET character2 == cs[j]
           commonEpisodes == CommonEpisodes(character1, character2)
       IN (IF IdBefore(character1, character2) /\ Len(commonEpisodes) > 0
           THEN <<CharacterPair(character1, character2, Len(commonEpisodes))>>
           ELSE <<>>)
          \o InnerLoop(character1, cs, j + 1)

RECURSIVE OuterLoop(_, _)
OuterLoop(cs, i) ==
  IF i > Len(cs) THEN <<>>
  ELSE InnerLoop(cs[i], cs, 1) \o OuterLoop(cs, i + 1)

\* allCharacters.forEach(character => charactersWithEpisodes.push({...}))
CharactersWithEpisodes(cs) ==
  [i \in 1..Len(cs) |->
     [id |-> cs[i].id, name |-> cs[i].name, url |-> cs[i].url,
      episodes |-> cs[i].episode]]

GeneratePairs(cs) == OuterLoop(CharactersWithEpisodes(cs), 1)

\* a sort that does not keep ties in place
StaysBeforeStrict(a, b) == a.episodes > b.episodes

\* Array.prototype.sort with (a, b) => b.episodes - a.episodes: a stable sort,
\* so an element goes behind every element that does not compare after it.
StaysBefore(a, b) == a.episodes >= b.episodes

RECURSIVE InsertPair(_, _)
InsertPair(p, sorted) ==
  IF sorted = <<>> THEN <<p>>
  ELSE IF StaysBefore(Head(sorted), p)
       THEN <<Head(sorted)>> \o InsertPair(p, Tail(sorted))
       ELSE <<p>> \o sorted

RECURSIVE SortFrom(_, _, _)
SortFrom(ps, i, acc) ==
  IF i > Len(ps) THEN acc ELSE SortFrom(ps, i + 1, InsertPair(ps[i], acc))

SortPairs(ps) == SortFrom(ps, 1, <<>>)

\* the filter without its upper bound
InBoundsNoMax(n, lo, hi) == IntAtLeast(n, lo)

InBounds(n, lo, hi) == IntAtLeast(n, lo) /\ IntAtMost(n, hi)

FilterPairs(ps, lo, hi) ==
  SelectSeq(ps, LAMBDA pair : InBounds(pair.episodes, lo, hi))

\* array.slice(0, n) for a positive integer n
Slice(s, n) == SubSeq(s, 1, Min2(n, Len(s)))

(* --------------------------- GET /top-pairs ---------------------------- *)

\* The handler up to its first await (lines 165-202): the three parameters are
\* parsed and checked in turn, the first bad one answers 400, and only when
\* all pass is the fetch of getAllCharacters issued.
TopPairsRequest(raws) ==
  /\ pc = "idle"
  /\ \E minRaw \in raws, maxRaw \in raws, limitRaw \in raws :
       LET mn == IF minRaw.present THEN ParseInt(minRaw.text) ELSE Num(0)
           mx == IF maxRaw.present THEN ParseInt(maxRaw.text) ELSE Infinity
           lm == IF limitRaw.present THEN ParseInt(limitRaw.text) ELSE Num(DefaultLimit)
           minBad == minRaw.present /\ (~IsFinite(mn) \/ LessThan(mn, 0))
           maxBad == maxRaw.present /\ (~IsFinite(mx) \/ LessThan(mx, 0))
           limitBad == limitRaw.present /\ (~IsFinite(lm) \/ AtMost(lm, 0))
       IN /\ query' = [endpoint |-> "top-pairs", term |-> Absent,
                       min |-> minRaw, max |-> maxRaw, limit |-> limitRaw]
          /\ minEpisodes' = mn
          /\ maxEpisodes' = IF minBad THEN Infinity ELSE mx
          /\ limit' = IF minBad \/ maxBad THEN Num(DefaultLimit) ELSE lm
          /\ IF minBad \/ maxBad \/ limitBad
             THEN /\ response' = ErrorResponse(400,
                                   IF minBad THEN MinMessage
                                   ELSE IF maxBad THEN MaxMessage
                                   ELSE LimitMessage)
                  /\ pc' = "done"
                  /\ fetches' = 0
             ELSE /\ response' = NoResponse
                  /\ pc' = "pairs_fetch"
                  /\ fetches' = 1
  /\ UNCHANGED <<calls, settleOrder, upstream, allCharacters, charactersPairs>>

\* The fetch of getAllCharacters settles and the function returns (lines 78-96).
GetAllCharactersSettles(outcomes, collections) ==
  /\ pc = "pairs_fetch"
  /\ upstream.outcome = "none"
  /\ \E o \in outcomes :
       \E pages \in (IF o = "ok" THEN collections ELSE {<<>>}) :
         /\ upstream' = [outcome |-> o, pages |-> pages]
         /\ allCharacters' = getAllCharacters(o, pages)
  /\ pc' = "pairs_compute"
  /\ UNCHANGED <<query, minEpisodes, maxEpisodes, limit, calls, settleOrder,
                 charactersPairs, fetches, response>>

\* The upstream goes silent on the fetch of getAllCharacters: the promise of
\* fetch(url), called with no signal and no timeout (line 80), never settles.
GetAllCharactersFetchHangs ==
  /\ pc = "pairs_fetch"
  /\ upstream.outcome = "none"
  /\ upstream' = [outcome |-> "silent", pages |-> <<>>]
  /\ UNCHANGED <<pc, query, minEpisodes, maxEpisodes, limit, calls, settleOrder,
                 allCharacters, charactersPairs, fetches, response>>

\* The handler after the await (lines 204-251): forEach on a value that is no
\* array throws and the catch answers 500; otherwise the pairs are generated,
\* sorted, filtered, cut and sent.
TopPairsRespond ==
  /\ pc = "pairs_compute"
  /\ IF ~allCharacters.array
     THEN /\ response' = ErrorResponse(500, InternalErrorMessage)
          /\ charactersPairs' = <<>>
     ELSE LET generated == GeneratePairs(allCharacters.items)
              sortedPairs == SortPairs(generated)
              filteredPairs == FilterPairs(sortedPairs, minEpisodes, maxEpisodes)
              limitedResults == Slice(filteredPairs, limit.val)
          IN /\ charactersPairs' = generated
             /\ response' = Json(limitedResults)
  /\ pc' = "done"
  /\ UNCHANGED <<query, minEpisodes, maxEpisodes, limit, calls, settleOrder,
                 upstream, allCharacters, fetches>>

(* ------------------------------ GET /search ---------------------------- *)

\* an item of an upstream collection as a name search returns it; its own
\* type field (a species, a kind of place) is not the origin tag
Item(r, i) ==
  [id |-> i, name |-> NameOf(i), type |-> "upstream", url |-> UrlOf(r, i)]

\* searchResource without its catch: a thrown failure reaches the handler
searchResourceRethrows(o, hits) ==
  IF o \in {"transport", "badstatus", "badjson", "badshape"} THEN NotAnArray
  ELSE IF o = "ok" THEN Array(hits)
  ELSE Array(<<>>)

\* What searchResource returns when its fetch ends with outcome o and the
\* upstream matched the given hits (lines 58-76).
searchResource(o, hits) ==
  IF o = "transport" THEN Array(<<>>)            \* fetch rejects: caught, []
  ELSE IF o = "notfound" THEN Array(<<>>)        \* status === 404
  ELSE IF o = "badstatus" THEN Array(<<>>)       \* !response.ok: thrown, caught, []
  ELSE IF o = "badjson" THEN Array(<<>>)         \* json() rejects: caught, []
  ELSE IF o = "noresults" THEN Array(<<>>)       \* data.results || []
  ELSE IF o = "badshape" THEN NotAnArray         \* data.results as it is
  ELSE Array(hits)

\* items.forEach(item => results.push({name, type: tag, url}))
Tagged(items, tag) ==
  [i \in 1..Len(items) |-> [name |-> items[i].name, type |-> tag, url |-> items[i].url]]

\* the three values concatenated in the order their calls settled
MergeBySettleOrder(characters, locations, episodes) ==
  LET tagged(r) == IF r = "character" THEN Tagged(characters, r)
                   ELSE IF r = "location" THEN Tagged(locations, r)
                   ELSE Tagged(episodes, r)
  IN tagged(settleOrder[1]) \o tagged(settleOrder[2]) \o tagged(settleOrder[3])

\* the order in which the handler concatenates the three settled values
MergeResults(characters, locations, episodes) ==
  Tagged(characters, "character") \o Tagged(locations, "location")
    \o Tagged(episodes, "episode")

\* limit ? results.slice(0, limit) : results
LimitResults(results, lim) ==
  IF lim.kind = "int" /\ lim.val # 0 THEN Slice(results, lim.val) ELSE results

\* The handler up to its await (lines 99-124): a missing or empty term answers
\* 400, then a bad limit answers 400, else the three searches are started and
\* each issues its fetch.
SearchRequest(terms, raws) ==
  /\ pc = "idle"
  /\ \E searchTerm \in terms, limitRaw \in raws :
       LET termBad == ~searchTerm.present \/ searchTerm.text = <<>>
           lm == IF limitRaw.present THEN ParseInt(limitRaw.text) ELSE Null
           limitBad == limitRaw.present /\ (~IsFinite(lm) \/ AtMost(lm, 0))
       IN /\ query' = [endpoint |-> "search", term |-> searchTerm,
                       min |-> Absent, max |-> Absent, limit |-> limitRaw]
          /\ limit' = IF termBad THEN Null ELSE lm
          /\ IF termBad \/ limitBad
             THEN /\ response' = ErrorResponse(400,
                                   IF termBad THEN MissingTermMessage ELSE LimitMessage)
                  /\ pc' = "done"
                  /\ fetches' = 0
             ELSE /\ response' = NoResponse
                  /\ pc' = "search_wait"
                  /\ fetches' = Len(ResourceTypes)
  /\ calls' = NoCalls
  /\ settleOrder' = <<>>
  /\ UNCHANGED <<minEpisodes, maxEpisodes, upstream, allCharacters, charactersPairs>>

\* One of the three searchResource calls settles; the calls settle in any order.
SearchResourceSettles(r, outcomes, hitLists) ==
  /\ pc = "search_wait"
  /\ calls[r].state = "pending"
  /\ \E o \in outcomes :
       \E ids \in (IF o = "ok" THEN hitLists ELSE {<<>>}) :
         LET hits == [i \in 1..Len(ids) |-> Item(r, ids[i])]
         IN calls' = [calls EXCEPT ![r] =
                        [state |-> "settled", outcome |-> o, hits |-> hits,
                         value |-> searchResource(o, hits)]]
  /\ settleOrder' = Append(settleOrder, r)
  /\ UNCHANGED <<pc, query, minEpisodes, maxEpisodes, limit, upstream,
                 allCharacters, charactersPairs, fetches, response>>

\* The upstream goes silent on one of the three name queries: the promise of
\* fetch(url) (line 60) never settles, and neither does searchResource.
SearchFetchHangs(r) ==
  /\ pc = "search_wait"
  /\ calls[r].state = "pending"
  /\ calls' = [calls EXCEPT ![r] =
                 [state |-> "hung", outcome |-> "silent", hits |-> <<>>,
                  value |-> Array(<<>>)]]
  /\ UNCHANGED <<pc, query, minEpisodes, maxEpisodes, limit, settleOrder, upstream,
                 allCharacters, charactersPairs, fetches, response>>

AllSettled == \A r \in Range(ResourceTypes) : calls[r].state = "settled"

\* Promise.all resolves once all three calls have settled, with the values in
\* the order of the array it was given; the handler merges and answers
\* (lines 127-161).  forEach on a value that is no array throws: 500.
SearchRespond ==
  /\ pc = "search_wait"
  /\ AllSettled
  /\ LET characters == calls[ResourceTypes[1]].value
         locations == calls[ResourceTypes[2]].value
         episodes == calls[ResourceTypes[3]].value
     IN IF ~characters.array \/ ~locations.array \/ ~episodes.array
        THEN response' = ErrorResponse(500, InternalErrorMessage)
        ELSE response' =
               Json(LimitResults(
                      MergeResults(characters.items, locations.items, episodes.items),
                      limit))
  /\ pc' = "done"
  /\ UNCHANGED <<query, minEpisodes, maxEpisodes, limit, calls, settleOrder,
                 upstream, allCharacters, charactersPairs, fetches>>

\* The response is sent and the handler's locals are gone; the next request
\* starts from nothing.
NextRequest ==
  /\ pc = "done"
  /\ pc' = "idle"
  /\ query' = NoQuery
  /\ minEpisodes' = Num(0)
  /\ maxEpisodes' = Infinity
  /\ limit' = Null
  /\ calls' = NoCalls
  /\ settleOrder' = <<>>
  /\ upstream' = NoUpstream
  /\ allCharacters' = Array(<<>>)
  /\ charactersPairs' = <<>>
  /\ fetches' = 0
  /\ response' = NoResponse

(* ------------------------------- inputs -------------------------------- *)

\* sequences over S of length at most n
SeqsUpTo(S, n) == UNION {[1..k -> S] : k \in 0..n}

Distinct(s) == \A i, j \in 1..Len(s) : i # j => s[i] # s[j]

EpisodeRefs == {UrlOf("episode", e) : e \in 1..NumEpisodes}
EpisodeLists == SeqsUpTo(EpisodeRefs, MaxEpLen)
Characters == {Character(i, eps) : i \in 1..MaxChars, eps \in EpisodeLists}

\* first pages: characters in any order, ids unique
FirstPages ==
  {cs \in SeqsUpTo(Characters, MaxChars) :
     \A i, j \in 1..Len(cs) : i # j => cs[i].id # cs[j].id}

\* a later page of the collection
ExtraPage(k) == <<Character(MaxChars + k, <<UrlOf("episode", 1)>>)>>

Collections ==
  {<<first>> \o [k \in 1..m |-> ExtraPage(k)] :
     first \in FirstPages, m \in 0..MaxExtraPages}

Ascending(s) == \A i \in 1..(Len(s) - 1) : s[i][2] < s[i + 1][2]

\* a one-page snapshot whose pairs outnumber the default limit
Crowd == <<[i \in 1..CrowdSize |-> Character(i, <<UrlOf("episode", 1)>>)]>>

\* one-page snapshots in id order with duplicate-free episode lists, and Crowd
RankCollections ==
  {<<first>> : first \in
     {cs \in FirstPages :
        /\ \A i \in 1..Len(cs) : cs[i].id = i /\ Ascending(cs[i].episode)}}
  \cup {Crowd}

TinyCollections == {<<<<Character(1, <<UrlOf("episode", 1)>>)>>>>}

HitLists == {ids \in SeqsUpTo(1..NumItems, NumItems) : Distinct(ids)}
TinyHitLists == {<<1>>}

Alphabet == {"0", "5", "-", "."}
RawStrings == {Absent} \cup {Str(s) : s \in SeqsUpTo(Alphabet, MaxRawLen)}

\* plain values of the parameters
PlainRaws == {Absent, Str(<<"0">>), Str(<<"1">>), Str(<<"2">>)}
RankRaws == {Absent, Str(<<"1">>), Str(<<"2">>), Str(<<"3">>)}
DefaultRaws == {Absent}
Terms == {Absent, Str(<<>>), Str(<<"r">>)}

(* --------------------------- specifications ---------------------------- *)

\* the whole service
Next ==
  \/ SearchRequest(Terms, PlainRaws)
  \/ \E r \in Range(ResourceTypes) : SearchResourceSettles(r, Outcomes, HitLists)
  \/ \E r \in Range(ResourceTypes) : SearchFetchHangs(r)
  \/ SearchRespond
  \/ TopPairsRequest(DefaultRaws)
  \/ GetAllCharactersSettles(Outcomes, Collections)
  \/ GetAllCharactersFetchHangs
  \/ TopPairsRespond
  \/ NextRequest

Spec == Init /\ [][Next]_vars

\* the ranking path under every combination of bounds and limit
RankNext ==
  \/ TopPairsRequest(RankRaws)
  \/ GetAllCharactersSettles(Outcomes, RankCollections)
  \/ GetAllCharactersFetchHangs
  \/ TopPairsRespond
  \/ NextRequest

RankSpec == Init /\ [][RankNext]_vars

\* both endpoints under every raw parameter text
ParamNext ==
  \/ SearchRequest(Terms, RawStrings)
  \/ \E r \in Range(ResourceTypes) :
       SearchResourceSettles(r, {"ok", "notfound"}, TinyHitLists)
  \/ \E r \in Range(ResourceTypes) : SearchFetchHangs(r)
  \/ SearchRespond
  \/ TopPairsRequest(RawStrings)
  \/ GetAllCharactersSettles({"ok", "notfound"}, TinyCollections)
  \/ GetAllCharactersFetchHangs
  \/ TopPairsRespond
  \/ NextRequest

ParamSpec == Init /\ [][ParamNext]_vars

\* The service with the fairness its scheduling gives: an upstream call that
\* has not gone silent is answered, and a continuation whose awaited promises
\* have settled does run.  No action ends a call the upstream went silent on:
\* the code gives fetch no signal and no timeout.
LiveNext ==
  \/ SearchRequest(Terms, DefaultRaws)
  \/ \E r \in Range(ResourceTypes) : SearchResourceSettles(r, Outcomes, TinyHitLists)
  \/ \E r \in Range(ResourceTypes) : SearchFetchHangs(r)
  \/ SearchRespond
  \/ TopPairsRequest(DefaultRaws)
  \/ GetAllCharactersSettles(Outcomes, TinyCollections)
  \/ GetAllCharactersFetchHangs
  \/ TopPairsRespond
  \/ NextRequest

FairSpec ==
  /\ Init
  /\ [][LiveNext]_vars
  /\ \A r \in Range(ResourceTypes) :
       WF_vars(SearchResourceSettles(r, Outcomes, TinyHitLists))
  /\ WF_vars(GetAllCharactersSettles(Outcomes, TinyCollections))
  /\ WF_vars(SearchRespond)
  /\ WF_vars(TopPairsRespond)

(* ------------------------------- claims -------------------------------- *)

TopPairsAnswered == pc = "done" /\ query.endpoint = "top-pairs"
SearchAnswered == pc = "done" /\ query.endpoint = "search"

TopPairsSent == TopPairsAnswered /\ response.status = 200

\* the loaded character a pair's side came from
LoadedWithUrl(url) == CHOOSE c \in Range(allCharacters.items) : c.url = url

Occurrences(s, x) == Cardinality({i \in 1..Len(s) : s[i] = x})

\* C1: the character set getAllCharacters hands to the pair computation holds
\* every character of every page of the upstream collection, each exactly once.
C1_LoadsEveryPage ==
  (query.endpoint = "top-pairs" /\ pc \in {"pairs_compute", "done"}
     /\ upstream.outcome = "ok")
  => /\ allCharacters.array
     /\ Len(allCharacters.items) = Len(Flatten(upstream.pages))
     /\ \A c \in Range(Flatten(upstream.pages)) :
          Occurrences(allCharacters.items, c) = 1

\* C2: when the fetch of the character collection fails with a transport
\* failure, a malformed body or a non-success status other than 404, the
\* /top-pairs request is answered 500 {error: "Internal server error"}.
C2_LoadFailureAnswers500 ==
  (TopPairsAnswered /\ upstream.outcome \in {"transport", "badjson", "badstatus"})
  => response = ErrorResponse(500, InternalErrorMessage)

\* C3: every returned pair's episodes value is at least 1 and is the number of
\* distinct episode references occurring in both characters' episode lists.
C3_EpisodesIsIntersectionSize ==
  TopPairsSent =>
    \A i \in 1..Len(response.body) :
      LET pair == response.body[i]
          a == LoadedWithUrl(pair.character1.url)
          b == LoadedWithUrl(pair.character2.url)
      IN /\ pair.episodes >= 1
         /\ pair.episodes = Cardinality(Range(a.episode) \cap Range(b.episode))

SharesEpisode(a, b) == Range(a.episode) \cap Range(b.episode) # {}

\* the entries of the generated pair list that join a and b, in either orientation
EntriesJoining(a, b) ==
  {k \in 1..Len(charactersPairs) :
     {charactersPairs[k].character1.url, charactersPairs[k].character2.url}
       = {a.url, b.url}}

\* C4: the generated pair list holds exactly one entry for each two distinct
\* loaded characters that share an episode, with the smaller id as character1;
\* none for two that share nothing, none of a character with itself, none twice.
C4_PairListCanonical ==
  TopPairsSent =>
    /\ \A a, b \in Range(allCharacters.items) :
         a.id < b.id =>
           IF SharesEpisode(a, b)
           THEN /\ Cardinality(EntriesJoining(a, b)) = 1
                /\ \A k \in EntriesJoining(a, b) :
                     /\ charactersPairs[k].character1.url = a.url
                     /\ charactersPairs[k].character2.url = b.url
           ELSE EntriesJoining(a, b) = {}
    /\ \A k \in 1..Len(charactersPairs) :
         /\ charactersPairs[k].character1.url # charactersPairs[k].character2.url
         /\ \E a, b \in Range(allCharacters.items) : k \in EntriesJoining(a, b)

\* a later-loaded character with the smaller id is character1 of an entry,
\* while two other loaded characters share nothing
C4_Witness ==
  /\ TopPairsSent
  /\ Len(allCharacters.items) = 3
  /\ allCharacters.items[1].id > allCharacters.items[2].id
  /\ SharesEpisode(allCharacters.items[1], allCharacters.items[2])
  /\ ~SharesEpisode(allCharacters.items[1], allCharacters.items[3])
  /\ Len(charactersPairs) >= 1

PositionGenerated(pair) ==
  CHOOSE k \in 1..Len(charactersPairs) : charactersPairs[k] = pair

\* C5: the output is ordered by episodes descending, and pairs with equal
\* counts keep the order in which the nested loops generated them.
C5_RankedDescendingTiesInGenerationOrder ==
  TopPairsSent =>
    \A i, j \in 1..Len(response.body) :
      i < j =>
        /\ response.body[i].episodes >= response.body[j].episodes
        /\ response.body[i].episodes = response.body[j].episodes
             => PositionGenerated(response.body[i]) < PositionGenerated(response.body[j])

\* the sort moved a pair forward, and two pairs tie
C5_Witness ==
  /\ TopPairsSent
  /\ Len(response.body) = 3
  /\ charactersPairs[1].episodes < charactersPairs[3].episodes
  /\ response.body[2].episodes = response.body[3].episodes

\* the limit in force: the supplied one, or 20
LimitInForce == IF query.limit.present THEN ParseInt(query.limit.text).val ELSE 20

InRequestedRange(n) ==
  /\ query.min.present => n >= ParseInt(query.min.text).val
  /\ query.max.present => n <= ParseInt(query.max.text).val

InRangeGenerated ==
  {k \in 1..Len(charactersPairs) : InRequestedRange(charactersPairs[k].episodes)}

\* C6: every returned pair lies in [min, max]; at most limit pairs (20 when
\* absent) are returned, each a generated pair returned once; fewer than limit
\* only when fewer are in range; no left-out pair in range has a greater
\* count than a returned one.
C6_FilteredAndLimited ==
  TopPairsSent =>
    LET body == response.body
        returned == {PositionGenerated(body[i]) : i \in 1..Len(body)}
    IN /\ \A i \in 1..Len(body) :
            /\ InRequestedRange(body[i].episodes)
            /\ \E k \in 1..Len(charactersPairs) : charactersPairs[k] = body[i]
       /\ Cardinality(returned) = Len(body)
       /\ Len(body) = Min2(LimitInForce, Cardinality(InRangeGenerated))
       /\ \A k \in InRangeGenerated \ returned :
            \A i \in 1..Len(body) :
              body[i].episodes >= charactersPairs[k].episodes

\* min = max = 1 and limit = 1: one pair is out of range, two are in range,
\* one is returned
C6_Witness ==
  /\ TopPairsSent
  /\ query.min.present /\ query.max.present /\ query.limit.present
  /\ Len(charactersPairs) = 3
  /\ Cardinality(InRangeGenerated) = 2
  /\ Len(response.body) = 1

\* the text is an integer and nothing else
IsIntegerText(s) ==
  LET unsigned == IF s # <<>> /\ Head(s) \in {"-", "+"} THEN Tail(s) ELSE s
  IN unsigned # <<>> /\ \A i \in 1..Len(unsigned) : unsigned[i] \in Digits

\* a supplied value the claim lets through: an integer text of at least lowest
Acceptable(raw, lowest) ==
  ~raw.present \/ (IsIntegerText(raw.text) /\ ParseInt(raw.text).val >= lowest)

AllAcceptable ==
  /\ Acceptable(query.min, 0)
  /\ Acceptable(query.max, 0)
  /\ Acceptable(query.limit, 1)

\* C7: a supplied numeric parameter is accepted only if its whole text is an
\* integer in range; any other supplied value is answered 400 with a
\* parameter message and no upstream fetch is issued for the request.
C7_OnlyWholeIntegersAccepted ==
  (pc # "idle" /\ ~AllAcceptable)
  => /\ response.status = 400
     /\ response.error \in {MissingTermMessage, MinMessage, MaxMessage, LimitMessage}
     /\ fetches = 0

\* no call of the request came back with a results value that is no array
SearchWellShaped ==
  SearchAnswered /\ \A r \in Range(ResourceTypes) : calls[r].outcome # "badshape"

SearchRequestValid ==
  /\ query.term.present /\ query.term.text # <<>>
  /\ Acceptable(query.limit, 1)

TypeRank(t) == CHOOSE k \in 1..Len(ResourceTypes) : ResourceTypes[k] = t

TotalHits ==
  Len(calls["character"].hits) + Len(calls["location"].hits)
    + Len(calls["episode"].hits)

SearchLimitInForce ==
  IF query.limit.present THEN ParseInt(query.limit.text).val ELSE TotalHits

\* C8: whatever order the three name queries settle in, the response lists
\* character hits, then location hits, then episode hits, each group in
\* upstream order and tagged with its origin, cut to the first limit items.
C8_MergedInTypeOrder ==
  (SearchWellShaped /\ SearchRequestValid) =>
    LET body == response.body
    IN /\ response.status = 200
       /\ Len(body) = Min2(SearchLimitInForce, TotalHits)
       /\ \A i, j \in 1..Len(body) :
            i < j => TypeRank(body[i].type) <= TypeRank(body[j].type)
       /\ \A r \in Range(ResourceTypes) :
            LET group == SelectSeq(body, LAMBDA item : item.type = r)
            IN /\ Len(group) <= Len(calls[r].hits)
               /\ \A i \in 1..Len(group) :
                    /\ group[i].name = calls[r].hits[i].name
                    /\ group[i].url = calls[r].hits[i].url

\* the episode query settled first and the character query last, every
\* collection had hits, and the limit cut the merged list
C8_Witness ==
  /\ SearchWellShaped
  /\ response.status = 200
  /\ settleOrder = <<"episode", "location", "character">>
  /\ \A r \in Range(ResourceTypes) : Len(calls[r].hits) >= 1
  /\ Len(calls["character"].hits) = 2
  /\ query.limit.present
  /\ Len(response.body) = 2
  /\ TotalHits > 2

HitsOfSucceeded(r) == IF calls[r].outcome = "ok" THEN calls[r].hits ELSE <<>>

ExpectedOf(r) ==
  [i \in 1..Len(HitsOfSucceeded(r)) |->
     [name |-> HitsOfSucceeded(r)[i].name, type |-> r,
      url |-> HitsOfSucceeded(r)[i].url]]

C10_EveryRequestAnswered == (pc # "idle") ~> (pc = "done")

====
